---- MODULE Spec2Model ----
(***************************************************************************)
(* The sampling extension layer of rand (src/src/lib.rs): trait Rng        *)
(* (gen, gen_range, sample, fill, try_fill, gen_bool, gen_ratio) and the   *)
(* byte bulk-fill subsystem AsByteSliceMut, driven by a step bit-source.   *)
(*                                                                         *)
(* Integers are scaled down: a byte has ByteMod values (256 in the         *)
(* program), the bit-source's wide word (u64) has WordBytes bytes (8 in    *)
(* the program) and its narrow word (u32) has half of that.  All the       *)
(* arithmetic below is written for an arbitrary ByteMod and WordBytes.     *)
(***************************************************************************)
EXTENDS Integers, Sequences, FiniteSets, TLC

\* ------------------------------------------------------------- bounds
ByteMod == 2
WordBytes == 4
MaxLen == 2
MaxInc == 1
MaxSeed == 1
MaxOps == 2
MaxDraws == 3
ProbDen == 2
MaxRatio == 2
NumThreads == 2
MaxNext == 3

\* ------------------------------------------------------------- widths
HalfBytes == WordBytes \div 2
WordMod == ByteMod ^ WordBytes
HalfMod == ByteMod ^ HalfBytes

\* mem::size_of::<$t>() for the element types the bulk fill is implemented for
ElemTypes == {"u8", "u32", "u64"}
size_of(ty) == CASE ty = "u8" -> 1 [] ty = "u32" -> HalfBytes [] OTHER -> WordBytes

\* ------------------------------------------------------ byte encodings
\* the k little-endian bytes of x: byte i (from 1) is digit i-1 of x
le_bytes(x, k) == [i \in 1..k |-> (x \div (ByteMod ^ (i - 1))) % ByteMod]

RECURSIVE le_value(_)
\* the integer whose little-endian bytes are bs
le_value(bs) == IF bs = <<>> THEN 0 ELSE Head(bs) + ByteMod * le_value(Tail(bs))

Reverse(s) == [i \in 1..Len(s) |-> s[Len(s) + 1 - i]]

\* integer swap_bytes on a k-byte integer
swap_bytes(x, k) == le_value(Reverse(le_bytes(x, k)))

\* x.to_le(): the identity on a little-endian host, a byte swap on a big-endian one
int_to_le(host, x, k) == IF host = "le" THEN x ELSE swap_bytes(x, k)

\* how the host stores a k-byte integer in memory, and reads it back
native_bytes(host, x, k) == IF host = "le" THEN le_bytes(x, k) ELSE Reverse(le_bytes(x, k))
native_value(host, bs) == IF host = "le" THEN le_value(bs) ELSE le_value(Reverse(bs))

\* --------------------------------------------------------- bit-source
\* rngs::mock::StepRng: returns v, then advances v by a (wrapping)
StepRng_new(v, a) == [v |-> v, a |-> a]

next_u64(r) == [val |-> r.v, rng |-> [r EXCEPT !.v = (r.v + r.a) % WordMod]]

\* StepRng::next_u32 is next_u64 truncated
next_u32(r) == LET d == next_u64(r) IN [val |-> d.val % HalfMod, rng |-> d.rng]

RECURSIVE fill_bytes_via_next(_, _)
\* rand_core::impls::fill_bytes_via_next: whole words first, then one more draw
\* for the remainder (a wide one when more than a narrow word is left)
fill_bytes_via_next(r, n) ==
    IF n >= WordBytes
    THEN LET d == next_u64(r)
             rest == fill_bytes_via_next(d.rng, n - WordBytes)
         IN  [bytes |-> le_bytes(d.val, WordBytes) \o rest.bytes, rng |-> rest.rng,
              words |-> 1 + rest.words]
    ELSE IF n > HalfBytes
    THEN LET d == next_u64(r)
         IN  [bytes |-> SubSeq(le_bytes(d.val, WordBytes), 1, n), rng |-> d.rng, words |-> 1]
    ELSE IF n > 0
    THEN LET d == next_u32(r)
         IN  [bytes |-> SubSeq(le_bytes(d.val, HalfBytes), 1, n), rng |-> d.rng, words |-> 1]
    ELSE [bytes |-> <<>>, rng |-> r, words |-> 0]

\* the failure kinds a bit-source reports (rand_core::ErrorKind)
ErrorKind == {"Unavailable", "Transient"}

\* RngCore::try_fill_bytes on a source whose fault is f: the typed failure, or the bytes
try_fill_bytes(r, n, f) ==
    IF f # "none"
    THEN [ok |-> FALSE, err |-> f, bytes |-> <<>>, rng |-> r, words |-> 0]
    ELSE LET filled == fill_bytes_via_next(r, n)
         IN  [ok |-> TRUE, err |-> "none",
              bytes |-> filled.bytes, rng |-> filled.rng, words |-> filled.words]

\* RngCore::fill_bytes: has no error channel, a failing source panics
fill_bytes(r, n, f) ==
    IF f # "none"
    THEN [panic |-> TRUE, bytes |-> <<>>, rng |-> r, words |-> 0]
    ELSE LET filled == fill_bytes_via_next(r, n)
         IN  [panic |-> FALSE,
              bytes |-> filled.bytes, rng |-> filled.rng, words |-> filled.words]

\* ---------------------------------------------------- AsByteSliceMut
\* a destination: a slice or an array of n elements of type ty, as the bytes
\* of its memory
Shapes == {"slice", "array"}
Dest(ty, n, shape) ==
    [ty |-> ty, n |-> n, shape |-> shape, mem |-> [i \in 1..(n * size_of(ty)) |-> 0]]

\* the array lengths impl_as_byte_slice_arrays! is invoked for: 32 down to 0,
\* and 4096 halved down to 64
ArrayLenMax == 32
ArrayLenDivMax == 4096
ArrayLenDivCount == 7
ArrayLens ==
    (0..ArrayLenMax) \cup {ArrayLenDivMax \div (2 ^ k) : k \in 0..(ArrayLenDivCount - 1)}

\* T: AsByteSliceMut holds of the destination's type: a slice of any length,
\* an array of one of the lengths the macro was invoked for
implemented(d) == d.ty \in ElemTypes /\ (d.shape = "slice" \/ d.n \in ArrayLens)

\* element i (from 0) of the destination, read as the host reads it
Elem(host, d, i) ==
    native_value(host, SubSeq(d.mem, i * size_of(d.ty) + 1, (i + 1) * size_of(d.ty)))

Elems(host, d) == [i \in 1..d.n |-> Elem(host, d, i - 1)]

\* variants of as_byte_slice_mut: the length counted in elements, not bytes;
\* no branch for the empty slice, so that self[0] is indexed on it too; the
\* byte view of a byte slice cut to whole wide words
as_byte_slice_mut_in_elements(d) ==
    IF d.ty = "u8"
    THEN [panic |-> FALSE, ptr |-> "self", len |-> d.n]
    ELSE IF d.n = 0
    THEN [panic |-> FALSE, ptr |-> "0x1", len |-> 0]
    ELSE [panic |-> ~(0 < d.n), ptr |-> "elem0", len |-> d.n]

as_byte_slice_mut_whole_words(d) ==
    IF d.ty = "u8"
    THEN [panic |-> FALSE, ptr |-> "self", len |-> (d.n \div WordBytes) * WordBytes]
    ELSE IF d.n = 0
    THEN [panic |-> FALSE, ptr |-> "0x1", len |-> 0]
    ELSE [panic |-> ~(0 < d.n), ptr |-> "elem0", len |-> d.n * size_of(d.ty)]

as_byte_slice_mut_no_empty_branch(d) ==
    IF d.ty = "u8"
    THEN [panic |-> FALSE, ptr |-> "self", len |-> d.n]
    ELSE [panic |-> ~(0 < d.n), ptr |-> "elem0", len |-> d.n * size_of(d.ty)]

\* impl AsByteSliceMut for [u8] and, from impl_as_byte_slice!, for [$t]:
\* the pointer the byte view starts at and its length in bytes
as_byte_slice_mut(d) ==
    IF d.ty = "u8"
    THEN [panic |-> FALSE, ptr |-> "self", len |-> d.n]
    ELSE IF d.n = 0
    THEN [panic |-> FALSE, ptr |-> "0x1", len |-> 0]
    ELSE [panic |-> ~(0 < d.n), ptr |-> "elem0", len |-> d.n * size_of(d.ty)]

\* the destination after bs was written through the byte view
write_bytes(d, bs) ==
    [d EXCEPT !.mem = [i \in 1..Len(d.mem) |-> IF i <= Len(bs) THEN bs[i] ELSE d.mem[i]]]

RECURSIVE to_le_from(_, _, _)
\* for x in self { *x = x.to_le() }, from element i on
to_le_from(host, d, i) ==
    IF i >= d.n THEN d
    ELSE LET k == size_of(d.ty)
             x == int_to_le(host, Elem(host, d, i), k)
             nb == native_bytes(host, x, k)
             d1 == [d EXCEPT !.mem = [j \in 1..Len(d.mem) |->
                        IF j > i * k /\ j <= (i + 1) * k THEN nb[j - i * k] ELSE d.mem[j]]]
         IN  to_le_from(host, d1, i + 1)

\* a variant of to_le that converts nothing
to_le_nothing(host, d) == d

\* AsByteSliceMut::to_le: nothing for [u8], every element converted for [$t]
to_le(host, d) == IF d.ty = "u8" THEN d ELSE to_le_from(host, d, 0)

\* self[..]: the slice of all the elements of an array
full_slice(d) == [d EXCEPT !.shape = "slice"]

\* a variant of the arrays' to_le that does not forward to the slice's
array_to_le_nothing(host, d) == d

\* impl AsByteSliceMut for [T; $n], from impl_as_byte_slice_arrays!
array_as_byte_slice_mut(d) == as_byte_slice_mut(full_slice(d))
array_to_le(host, d) == [to_le(host, full_slice(d)) EXCEPT !.shape = d.shape]

\* the implementation of AsByteSliceMut the destination's type selects
dest_as_byte_slice_mut(d) ==
    IF d.shape = "array" THEN array_as_byte_slice_mut(d) ELSE as_byte_slice_mut(d)
dest_to_le(host, d) == IF d.shape = "array" THEN array_to_le(host, d) ELSE to_le(host, d)

\* the number of elements to_le converts
to_le_count(d) == IF d.ty = "u8" THEN 0 ELSE d.n


\* --------------------------------------------------- the calling thread
\* One engine and what its thread observed of the call in progress or last made:
\*   rng     the bit-source's state           pre    its state when the call began
\*   pc      idle | draw (inside sample_single's loop) | panicked
\*   status  none | ok | err | panic          val    <<>> or <<the value returned>>
\*   err     the failure value returned       dest   the destination of a fill
\*   reqs    the byte-fill requests made      got    the bytes the source delivered
\*   srcerr  the failure the source reported  ptr    the pointer the byte view used
\*   conv    elements converted by to_le      draws  words the source gave out
\*   raw     the last word drawn              lo, hi sample_single's range
Machine(v, a, host) ==
    [rng |-> StepRng_new(v, a), pre |-> StepRng_new(v, a), host |-> host,
     pc |-> "idle", status |-> "none", val |-> <<>>, err |-> "none",
     dest |-> Dest("u8", 0, "slice"), reqs |-> <<>>, got |-> <<>>, srcerr |-> "none",
     ptr |-> "none", conv |-> 0, draws |-> 0, raw |-> 0, lo |-> 0, hi |-> 0]

\* a call begins: nothing observed yet
Begin(m) ==
    [m EXCEPT !.pre = m.rng, !.status = "none", !.val = <<>>, !.err = "none",
              !.dest = Dest("u8", 0, "slice"), !.reqs = <<>>, !.got = <<>>, !.srcerr = "none",
              !.ptr = "none", !.conv = 0, !.draws = 0, !.raw = 0, !.lo = 0, !.hi = 0]

\* the call unwinds with a panic: it returns nothing
Panic(m) == [m EXCEPT !.pc = "panicked", !.status = "panic", !.val = <<>>]

\* the call returns v
Return(m, v) == [m EXCEPT !.pc = "idle", !.status = "ok", !.val = v]

\* the call is refused when the program is built (a trait bound of the method
\* does not hold of the argument's type): nothing runs
Reject(m) == [m EXCEPT !.status = "rejected"]

\* RngCore::next_u64 / next_u32 on a source whose fault is f: no error channel
draw_word(m, ty, f) ==
    IF f # "none"
    THEN [panic |-> TRUE, val |-> 0, m |-> [m EXCEPT !.srcerr = f]]
    ELSE LET d == IF ty = "u32" THEN next_u32(m.rng) ELSE next_u64(m.rng)
         IN  [panic |-> FALSE, val |-> d.val,
              m |-> [m EXCEPT !.rng = d.rng, !.draws = m.draws + 1, !.raw = d.val]]

\* ------------------------------------------------------- distributions
\* Bernoulli's fixed-point probability; ALWAYS_TRUE needs no random word
ALWAYS_TRUE == WordMod - 1

\* Distribution::sample for Standard (integers: one word of the type's width)
\* and for Bernoulli (one wide word compared with p_int)
Distribution_sample(m, distr, f) ==
    IF distr.kind = "Standard"
    THEN LET d == draw_word(m, distr.ty, f)
         IN  IF d.panic THEN Panic(d.m) ELSE Return(d.m, <<d.val>>)
    ELSE IF distr.p_int = ALWAYS_TRUE
    THEN Return(m, <<TRUE>>)
    ELSE LET d == draw_word(m, "u64", f)
         IN  IF d.panic THEN Panic(d.m) ELSE Return(d.m, <<d.val < distr.p_int>>)

Standard(ty) == [kind |-> "Standard", ty |-> ty, p_int |-> 0]
Bernoulli(p_int) == [kind |-> "Bernoulli", ty |-> "bool", p_int |-> p_int]

\* ------------------------------------------------------------ trait Rng
\* Rng::sample
sample(m, distr, f) == Distribution_sample(m, distr, f)

\* a variant of gen that draws a word of its own before it samples
gen_discarding_word(m, ty, f) ==
    LET d == draw_word(m, "u32", f)
    IN  IF d.panic THEN Panic(d.m) ELSE Distribution_sample(d.m, Standard(ty), f)

\* Rng::gen
gen(m, ty, f) == Distribution_sample(m, Standard(ty), f)

\* variants of fill: the conversion to little-endian left out; the fallible
\* byte fill used and its failure dropped
fill_without_to_le(m, d, f) ==
    LET bs == dest_as_byte_slice_mut(d)
        m0 == [m EXCEPT !.dest = d, !.ptr = bs.ptr]
    IN  IF bs.panic THEN Panic(m0)
        ELSE LET r == fill_bytes(m.rng, bs.len, f)
                 m1 == [m0 EXCEPT !.reqs = Append(m.reqs, bs.len)]
             IN  IF r.panic THEN Panic([m1 EXCEPT !.srcerr = f])
                 ELSE Return([m1 EXCEPT !.rng = r.rng, !.got = r.bytes,
                                        !.draws = m.draws + r.words,
                                        !.dest = write_bytes(d, r.bytes)], <<>>)

fill_dropping_failure(m, d, f) ==
    LET bs == dest_as_byte_slice_mut(d)
        m0 == [m EXCEPT !.dest = d, !.ptr = bs.ptr]
    IN  IF bs.panic THEN Panic(m0)
        ELSE LET r == try_fill_bytes(m.rng, bs.len, f)
                 m1 == [m0 EXCEPT !.reqs = Append(m.reqs, bs.len), !.srcerr = r.err]
             IN  Return([m1 EXCEPT !.rng = r.rng, !.got = r.bytes,
                                   !.draws = m.draws + r.words,
                                   !.dest = dest_to_le(m.host, write_bytes(d, r.bytes)),
                                   !.conv = to_le_count(d)], <<>>)

\* Rng::fill
fill(m, d, f) ==
    LET bs == dest_as_byte_slice_mut(d)
        m0 == [m EXCEPT !.dest = d, !.ptr = bs.ptr]
    IN  IF bs.panic THEN Panic(m0)
        ELSE LET r == fill_bytes(m.rng, bs.len, f)
                 m1 == [m0 EXCEPT !.reqs = Append(m.reqs, bs.len)]
             IN  IF r.panic THEN Panic([m1 EXCEPT !.srcerr = f])
                 ELSE Return([m1 EXCEPT !.rng = r.rng, !.got = r.bytes,
                                        !.draws = m.draws + r.words,
                                        !.dest = dest_to_le(m.host, write_bytes(d, r.bytes)),
                                        !.conv = to_le_count(d)], <<>>)

\* a variant of try_fill that drops the failure of the byte fill and goes on
try_fill_dropping_failure(m, d, f) ==
    LET bs == dest_as_byte_slice_mut(d)
        m0 == [m EXCEPT !.dest = d, !.ptr = bs.ptr]
    IN  IF bs.panic THEN Panic(m0)
        ELSE LET r == try_fill_bytes(m.rng, bs.len, f)
                 m1 == [m0 EXCEPT !.reqs = Append(m.reqs, bs.len), !.srcerr = r.err]
             IN  Return([m1 EXCEPT !.rng = r.rng, !.got = r.bytes,
                                   !.draws = m.draws + r.words,
                                   !.dest = dest_to_le(m.host, write_bytes(d, r.bytes)),
                                   !.conv = to_le_count(d)], <<>>)

\* Rng::try_fill
try_fill(m, d, f) ==
    LET bs == dest_as_byte_slice_mut(d)
        m0 == [m EXCEPT !.dest = d, !.ptr = bs.ptr]
    IN  IF bs.panic THEN Panic(m0)
        ELSE LET r == try_fill_bytes(m.rng, bs.len, f)
                 m1 == [m0 EXCEPT !.reqs = Append(m.reqs, bs.len)]
             IN  IF ~r.ok
                 THEN [m1 EXCEPT !.pc = "idle", !.status = "err", !.err = r.err,
                                 !.srcerr = r.err]
                 ELSE Return([m1 EXCEPT !.rng = r.rng, !.got = r.bytes,
                                        !.draws = m.draws + r.words,
                                        !.dest = dest_to_le(m.host, write_bytes(d, r.bytes)),
                                        !.conv = to_le_count(d)], <<>>)

\* ------------------------------------------ uniform sampling of a range
\* the discrete type gen_range is used at: the signed integers of the wide word
IntMin == -(WordMod \div 2)
IntMax == IntMin + WordMod - 1
wrapping_add(x, y) == ((x + y - IntMin) % WordMod) + IntMin

\* high - low as an unsigned word
span_of(low, high) == (high - low) % WordMod

\* the acceptance zone: the largest multiple of the span that fits in a wide word
zone_of(span) == WordMod - (WordMod % span)

\* a variant that accepts every raw word (plain modulo, no rejection)
in_zone_accept_all(v, span) == v < WordMod

in_zone(v, span) == v < zone_of(span)

\* an accepted raw word reduced modulo the span and added to low
reduce(low, v, span) == wrapping_add(low, v % span)

\* UniformSampler::sample_single, up to its loop: the range is checked first
sample_single(m, low, high, f) ==
    IF ~(low < high) THEN Panic(m)
    ELSE [m EXCEPT !.pc = "draw", !.lo = low, !.hi = high]

\* one turn of sample_single's loop: draw, and return when the word is in the zone
sample_single_loop(m, f) ==
    LET span == span_of(m.lo, m.hi)
        d == draw_word(m, "u64", f)
    IN  IF d.panic THEN Panic(d.m)
        ELSE IF in_zone(d.val, span) THEN Return(d.m, <<reduce(m.lo, d.val, span)>>)
        ELSE d.m

\* variants of gen_range: high taken as inclusive; the bounds put in order;
\* a plain draw reduced modulo the span
gen_range_inclusive(m, low, high, f) == sample_single(m, low, wrapping_add(high, 1), f)

gen_range_reorder(m, low, high, f) ==
    IF low > high THEN sample_single(m, high, low, f) ELSE sample_single(m, low, high, f)

gen_range_modulo(m, low, high, f) ==
    LET d == draw_word(m, "u64", f)
    IN  IF d.panic THEN Panic(d.m)
        ELSE IF span_of(low, high) = 0 THEN Panic(d.m)
        ELSE Return(d.m, <<reduce(low, d.val, span_of(low, high))>>)

\* Rng::gen_range
gen_range(m, low, high, f) == sample_single(m, low, high, f)

\* ------------------------------------------------------ Bernoulli trials
\* Bernoulli::new for p = pn / ProbDen
Bernoulli_new(pn) ==
    IF pn < 0 \/ pn > ProbDen THEN [panic |-> TRUE, distr |-> Bernoulli(0)]
    ELSE IF pn = ProbDen THEN [panic |-> FALSE, distr |-> Bernoulli(ALWAYS_TRUE)]
    ELSE [panic |-> FALSE, distr |-> Bernoulli((pn * WordMod) \div ProbDen)]

\* Bernoulli::from_ratio
Bernoulli_from_ratio(n, d) ==
    IF d = 0 \/ n > d THEN [panic |-> TRUE, distr |-> Bernoulli(0)]
    ELSE IF n = d THEN [panic |-> FALSE, distr |-> Bernoulli(ALWAYS_TRUE)]
    ELSE [panic |-> FALSE, distr |-> Bernoulli((n * WordMod) \div d)]

\* variants of gen_bool: a raw word compared with the scaled probability, its
\* upper end included; the probability clamped into [0, 1]
gen_bool_raw_compare(m, pn, f) ==
    IF pn < 0 \/ pn > ProbDen THEN Panic(m)
    ELSE LET d == draw_word(m, "u64", f)
         IN  IF d.panic THEN Panic(d.m)
             ELSE Return(d.m, <<d.val <= (pn * (WordMod - 1)) \div ProbDen>>)

gen_bool_clamped(m, pn, f) ==
    LET d == Bernoulli_new(IF pn < 0 THEN 0 ELSE IF pn > ProbDen THEN ProbDen ELSE pn)
    IN  IF d.panic THEN Panic(m) ELSE sample(m, d.distr, f)

\* Rng::gen_bool
gen_bool(m, pn, f) ==
    LET d == Bernoulli_new(pn)
    IN  IF d.panic THEN Panic(m) ELSE sample(m, d.distr, f)

\* variants of gen_ratio: a raw word reduced modulo the denominator and
\* compared with the numerator, its upper end included; equal numerator and
\* denominator answered before the denominator is checked
gen_ratio_modulo(m, n, dn, f) ==
    IF dn = 0 \/ n > dn THEN Panic(m)
    ELSE LET d == draw_word(m, "u64", f)
         IN  IF d.panic THEN Panic(d.m) ELSE Return(d.m, <<d.val % dn <= n>>)

gen_ratio_equal_first(m, n, dn, f) ==
    IF n = dn THEN sample(m, Bernoulli(ALWAYS_TRUE), f)
    ELSE LET d == Bernoulli_from_ratio(n, dn)
         IN  IF d.panic THEN Panic(m) ELSE sample(m, d.distr, f)

\* Rng::gen_ratio
gen_ratio(m, n, dn, f) ==
    LET d == Bernoulli_from_ratio(n, dn)
    IN  IF d.panic THEN Panic(m) ELSE sample(m, d.distr, f)

\* ------------------------------------------------ entropy seeding facade
\* what an entropy source answers: "none" (it works) or the failure it reports
SourceAnswers == {"none"} \cup ErrorKind

\* SeedableRng::from_seed: the engine is a function of its seed alone
from_seed(seed) == StepRng_new(seed, 1)

\* EntropyRng::new() then its fallible byte fill: the primary source (OsRng) is
\* asked first and the secondary (JitterRng) only when the primary fails; a
\* failure is reported when both fail
EntropyRng_try_fill_bytes(os, jitter, seed) ==
    IF os = "none"
    THEN [ok |-> TRUE, err |-> "none", seed |-> seed, asked |-> <<"os">>]
    ELSE IF jitter = "none"
    THEN [ok |-> TRUE, err |-> "none", seed |-> seed, asked |-> <<"os", "jitter">>]
    ELSE [ok |-> FALSE, err |-> jitter, seed |-> 0, asked |-> <<"os", "jitter">>]

\* SeedableRng::from_rng: the seed is filled fallibly from the source, and the
\* engine made from it
from_rng(os, jitter, seed) ==
    LET r == EntropyRng_try_fill_bytes(os, jitter, seed)
    IN  [ok |-> r.ok, err |-> r.err, asked |-> r.asked,
         engine |-> IF r.ok THEN <<from_seed(r.seed)>> ELSE <<>>]

\* The facade and what its caller observed of the last from_entropy():
\*   os, jitter  what the two entropy sources answer now
\*   pc          idle | panicked            status  none | ok | panic
\*   engine      <<>> or <<the engine returned>>
\*   calls       calls of from_rng made     asked   the sources consulted
\*   reported    what from_rng reported     made    calls of from_entropy so far
\*   used        words drawn from the engine returned
Facade ==
    [os |-> "none", jitter |-> "none", pc |-> "idle", status |-> "none", engine |-> <<>>,
     calls |-> 0, asked |-> <<>>, reported |-> "none", made |-> 0, used |-> 0]

\* a call of from_entropy begins
BeginSeeding(e) ==
    [e EXCEPT !.status = "none", !.engine = <<>>, !.calls = 0, !.asked = <<>>,
              !.reported = "none", !.made = e.made + 1, !.used = 0]

\* a variant of from_entropy that tries from_rng a second time when it failed
from_entropy_retry(e, seed) ==
    LET r == from_rng(e.os, e.jitter, seed)
        e1 == [e EXCEPT !.calls = e.calls + 1, !.asked = e.asked \o r.asked,
                        !.reported = r.err]
    IN  IF r.ok THEN [e1 EXCEPT !.status = "ok", !.engine = r.engine]
        ELSE LET r2 == from_rng(e.os, e.jitter, seed)
                 e2 == [e1 EXCEPT !.calls = e1.calls + 1, !.asked = e1.asked \o r2.asked,
                                  !.reported = r2.err]
             IN  IF r2.ok THEN [e2 EXCEPT !.status = "ok", !.engine = r2.engine]
                 ELSE [e2 EXCEPT !.pc = "panicked", !.status = "panic", !.engine = <<>>]

\* FromEntropy::from_entropy:
\* R::from_rng(EntropyRng::new()).unwrap_or_else(|err| panic!(..))
from_entropy(e, seed) ==
    LET r == from_rng(e.os, e.jitter, seed)
        e1 == [e EXCEPT !.calls = e.calls + 1, !.asked = e.asked \o r.asked,
                        !.reported = r.err]
    IN  IF r.ok THEN [e1 EXCEPT !.status = "ok", !.engine = r.engine]
        ELSE [e1 EXCEPT !.pc = "panicked", !.status = "panic", !.engine = <<>>]

\* --------------------------------------------------- thread-local facade
\* The threads that call random() and the engines made for them:
\*   key     each thread's thread-local slot: <<>> or <<the index of its engine>>
\*   pc      idle | gen (thread_rng() returned, gen() not yet called)
\*   handle  the engine the handle thread_rng() returned refers to
\*   pool    every engine made: the thread it was made on, its seed, its state,
\*           the threads that drew from it and the calls it served
\*   done    calls of random() each thread completed
\*   val     the value of each thread's last call
ThreadIds == 1..NumThreads

Threads_none ==
    [key |-> [t \in ThreadIds |-> <<>>], pc |-> [t \in ThreadIds |-> "idle"],
     handle |-> [t \in ThreadIds |-> <<>>], pool |-> <<>>,
     done |-> [t \in ThreadIds |-> 0], val |-> [t \in ThreadIds |-> <<>>]]

\* thread_rng(): the calling thread's engine, made and seeded on the thread's
\* first call and kept in its thread-local slot
thread_rng(s, t, seed) ==
    IF s.key[t] = <<>>
    THEN LET made == [owner |-> t, seed |-> seed, m |-> Machine(seed, 1, "le"),
                      users |-> {}, served |-> 0]
             id == Len(s.pool) + 1
         IN  [s EXCEPT !.pool = Append(s.pool, made), !.key[t] = <<id>>,
                       !.handle[t] = <<id>>]
    ELSE [s EXCEPT !.handle[t] = s.key[t]]

\* gen() on the handle thread t holds
handle_gen(s, t, ty) ==
    LET id == s.handle[t][1]
        e == s.pool[id]
        m == gen(Begin(e.m), ty, "none")
    IN  [s EXCEPT !.pool[id] = [e EXCEPT !.m = m, !.users = e.users \cup {t},
                                         !.served = e.served + 1],
                  !.val[t] = m.val, !.handle[t] = <<>>, !.pc[t] = "idle",
                  !.done[t] = s.done[t] + 1]

\* a variant of random that makes a fresh engine on every call
random_fresh_engine(s, t, seed, ty) ==
    IF s.pc[t] = "idle"
    THEN [thread_rng([s EXCEPT !.key[t] = <<>>], t, seed) EXCEPT !.pc[t] = "gen"]
    ELSE handle_gen(s, t, ty)

\* random(): thread_rng().gen(), one of its two calls at a time
random(s, t, seed, ty) ==
    IF s.pc[t] = "idle"
    THEN [thread_rng(s, t, seed) EXCEPT !.pc[t] = "gen"]
    ELSE handle_gen(s, t, ty)

\* ------------------------------------------------------ sample sequences
\* A sequence made by sample_iter and what its holder observed of it:
\*   on      none | owned (over the caller's own engine) | handle (over a handle
\*           thread_rng() returned)
\*   live    it exists: made and not yet dropped
\*   borrow  it holds the exclusive borrow of the value it was made over
\*   t, id   for a handle: the thread that holds it, the engine it refers to
\*   distr   the distribution sampled
\*   start   the engine's state when the sequence was made
\*   served0 for a handle: the calls the engine had served by then
\*   out     the elements yielded so far
\*   ended   an advance returned None
\*   before, after   the engine's state around the last advance: <<>> or <<state>>
DistIter_none ==
    [on |-> "none", live |-> FALSE, borrow |-> FALSE, t |-> 0, id |-> 0,
     distr |-> Standard("u32"), start |-> StepRng_new(0, 0), served0 |-> 0,
     out |-> <<>>, ended |-> FALSE, before |-> <<>>, after |-> <<>>]

\* the value a sequence is made over: the caller's engine, or a handle
OwnedRef(m) == [on |-> "owned", t |-> 0, id |-> 0, rng |-> m.rng, served |-> 0]
HandleRef(s, t) ==
    [on |-> "handle", t |-> t, id |-> s.key[t][1], rng |-> s.pool[s.key[t][1]].m.rng,
     served |-> s.pool[s.key[t][1]].served]

\* Distribution::sample_iter: DistIter { distr, rng } with rng: &'a mut R
Distribution_sample_iter(distr, src) ==
    [DistIter_none EXCEPT !.on = src.on, !.live = TRUE, !.borrow = TRUE, !.t = src.t,
                          !.id = src.id, !.distr = distr, !.start = src.rng,
                          !.served0 = src.served]

\* a variant of sample_iter whose sequence does not borrow what it is made over
sample_iter_unborrowed(src, distr) ==
    [Distribution_sample_iter(distr, src) EXCEPT !.borrow = FALSE]

\* Rng::sample_iter
sample_iter(src, distr) == Distribution_sample_iter(distr, src)

\* DistIter::next on the engine m: Some(self.distr.sample(self.rng)); a panic
\* of the sample unwinds through the holder, which drops the sequence
DistIter_next(it, m, f) ==
    LET r == sample(Begin(m), it.distr, f)
    IN  [m  |-> r,
         it |-> IF r.status = "ok"
                THEN [it EXCEPT !.out = Append(it.out, r.val[1]),
                                !.before = <<m.rng>>, !.after = <<r.rng>>]
                ELSE [it EXCEPT !.live = FALSE]]

\* the sequence is dropped: nothing else happens
DistIter_drop(it) == [it EXCEPT !.live = FALSE]

\* the sequence it holds the exclusive borrow of the value of kind on
borrowed(it, on) == it.live /\ it.borrow /\ it.on = on

\* ---------------------------------------------------------------- state
\* m1: an engine and its thread.  m2: a second engine constructed from the same
\* seed, on a host of its own, given the same calls.  call: the call in progress
\* or last made.  fault: the failure the bit-source implementation reports
\* ("none": it works).  nops: calls made so far.
\* ent: the entropy seeding facade.  tls: the threads of the thread-local facade.
\* iter: the sample sequence made last.
VARIABLES m1, m2, call, fault, nops, ent, tls, iter
vars == <<m1, m2, call, fault, nops, ent, tls, iter>>

\* the parts of the state each specification leaves alone
engines == <<m1, m2, call, fault, nops>>
facades == <<ent, tls, iter>>

Hosts == {"le", "be"}
Seeds == (0..MaxSeed) \cup ((WordMod - 1 - MaxSeed)..(WordMod - 1))
Incs == 0..MaxInc
RangeArgs == {IntMin, -2, 2, 3, 5, IntMax}
Distrs == {Standard("u32"), Standard("u64"),
           Bernoulli(0), Bernoulli(WordMod \div 2), Bernoulli(ALWAYS_TRUE)}

Call(op, ty, a, b, shape) == [op |-> op, ty |-> ty, a |-> a, b |-> b, shape |-> shape]

Init ==
    \E v \in Seeds, a \in Incs, h1 \in Hosts, h2 \in Hosts :
        /\ m1 = Machine(v, a, h1)
        /\ m2 = Machine(v, a, h2)
        /\ call = Call("none", "none", 0, 0, "none")
        /\ fault = "none"
        /\ nops = 0
        /\ ent = Facade
        /\ tls = Threads_none
        /\ iter = DistIter_none

CanCall == m1.pc = "idle" /\ m2.pc = "idle" /\ nops < MaxOps

Gen ==
    \E ty \in {"u32", "u64"} :
        /\ CanCall
        /\ m1' = gen(Begin(m1), ty, fault)
        /\ m2' = gen(Begin(m2), ty, fault)
        /\ call' = Call("gen", ty, 0, 0, "none")
        /\ nops' = nops + 1
        /\ UNCHANGED <<fault, facades>>

GenRange ==
    \E low \in RangeArgs, high \in RangeArgs :
        /\ CanCall
        /\ m1' = gen_range(Begin(m1), low, high, fault)
        /\ m2' = gen_range(Begin(m2), low, high, fault)
        /\ call' = Call("gen_range", "i64", low, high, "none")
        /\ nops' = nops + 1
        /\ UNCHANGED <<fault, facades>>

\* inside sample_single's loop, with the model's cap on the turns of one call
Drawing(m) == m.pc = "draw" /\ m.draws < MaxDraws

\* the engines inside sample_single's loop take one turn of it
Draw ==
    /\ Drawing(m1) \/ Drawing(m2)
    /\ m1' = IF Drawing(m1) THEN sample_single_loop(m1, fault) ELSE m1
    /\ m2' = IF Drawing(m2) THEN sample_single_loop(m2, fault) ELSE m2
    /\ UNCHANGED <<call, fault, nops, facades>>

Sample ==
    \E distr \in Distrs :
        /\ CanCall
        /\ m1' = sample(Begin(m1), distr, fault)
        /\ m2' = sample(Begin(m2), distr, fault)
        /\ call' = Call("sample", distr.ty, distr.p_int, 0, "none")
        /\ nops' = nops + 1
        /\ UNCHANGED <<fault, facades>>

Fill ==
    \E ty \in ElemTypes, n \in 0..MaxLen, shape \in Shapes :
        /\ CanCall
        /\ m1' = fill(Begin(m1), Dest(ty, n, shape), fault)
        /\ m2' = fill(Begin(m2), Dest(ty, n, shape), fault)
        /\ call' = Call("fill", ty, n, 0, shape)
        /\ nops' = nops + 1
        /\ UNCHANGED <<fault, facades>>

TryFill ==
    \E ty \in ElemTypes, n \in 0..MaxLen, shape \in Shapes :
        /\ CanCall
        /\ m1' = try_fill(Begin(m1), Dest(ty, n, shape), fault)
        /\ m2' = try_fill(Begin(m2), Dest(ty, n, shape), fault)
        /\ call' = Call("try_fill", ty, n, 0, shape)
        /\ nops' = nops + 1
        /\ UNCHANGED <<fault, facades>>

GenBool ==
    \E pn \in -1..(ProbDen + 1) :
        /\ CanCall
        /\ m1' = gen_bool(Begin(m1), pn, fault)
        /\ m2' = gen_bool(Begin(m2), pn, fault)
        /\ call' = Call("gen_bool", "bool", pn, ProbDen, "none")
        /\ nops' = nops + 1
        /\ UNCHANGED <<fault, facades>>

GenRatio ==
    \E n \in 0..MaxRatio, d \in 0..MaxRatio :
        /\ CanCall
        /\ m1' = gen_ratio(Begin(m1), n, d, fault)
        /\ m2' = gen_ratio(Begin(m2), n, d, fault)
        /\ call' = Call("gen_ratio", "bool", n, d, "none")
        /\ nops' = nops + 1
        /\ UNCHANGED <<fault, facades>>

\* the bit-source implementation starts to fail, or works again
SourceFails ==
    \E e \in ErrorKind :
        /\ fault = "none"
        /\ fault' = e
        /\ UNCHANGED <<m1, m2, call, nops, facades>>

SourceRecovers ==
    /\ fault # "none"
    /\ fault' = "none"
    /\ UNCHANGED <<m1, m2, call, nops, facades>>

Next ==
    \/ Gen \/ GenRange \/ Draw \/ Sample \/ Fill \/ TryFill \/ GenBool \/ GenRatio
    \/ SourceFails \/ SourceRecovers

Spec == Init /\ [][Next]_vars

\* one start only: the engines on little-endian hosts, nothing called yet
InitFacades ==
    /\ m1 = Machine(0, 0, "le")
    /\ m2 = Machine(0, 0, "le")
    /\ call = Call("none", "none", 0, 0, "none")
    /\ fault = "none"
    /\ nops = 0
    /\ ent = Facade
    /\ tls = Threads_none
    /\ iter = DistIter_none

\* ------------------------------------- gen_range on a source of any words
\* the count of words drawn, kept at MaxDraws once it is reached
Saturate(m) == [m EXCEPT !.draws = IF m.draws > MaxDraws THEN MaxDraws ELSE m.draws]

\* one turn of sample_single's loop in which the bit-source gives the word v
TurnWith(v) ==
    /\ m1.pc = "draw" /\ m2.pc = "draw"
    /\ m1' = Saturate(sample_single_loop([m1 EXCEPT !.rng = StepRng_new(v, 0)], fault))
    /\ m2' = Saturate(sample_single_loop([m2 EXCEPT !.rng = StepRng_new(v, 0)], fault))
    /\ UNCHANGED <<call, fault, nops, facades>>

\* the words tried in a turn: the least and the greatest, those of Seeds, and
\* the two at the edge of the acceptance zone
EdgeWords(span) ==
    Seeds \cup {zone_of(span) - 1, zone_of(span) % WordMod}

\* the bit-source gives a word in the acceptance zone, or one outside it
DrawAccepted ==
    /\ m1.pc = "draw"
    /\ \E v \in EdgeWords(span_of(m1.lo, m1.hi)) :
          in_zone(v, span_of(m1.lo, m1.hi)) /\ TurnWith(v)

DrawRejected ==
    /\ m1.pc = "draw"
    /\ \E v \in EdgeWords(span_of(m1.lo, m1.hi)) :
          ~in_zone(v, span_of(m1.lo, m1.hi)) /\ TurnWith(v)

NextRange == GenRange \/ DrawAccepted \/ DrawRejected

\* the bit-source's words are uniform: asked again and again, it does not
\* give words outside the acceptance zone for ever
SpecRange == InitFacades /\ [][NextRange]_vars /\ WF_vars(DrawAccepted)

\* ------------------------------------------- one bulk fill, of any shape
\* the lengths in bytes that leave every remainder of the wide word, after no
\* whole word and after some
ByteLens == 0..((MaxLen + 1) * WordBytes - 1)

\* the lengths tried: those of Fill; for bytes every ByteLens and the longest
\* array of the macro's first invocation; for arrays the length after it
DestLens(ty, shape) ==
    (0..MaxLen) \cup (IF ty = "u8" THEN ByteLens \cup {ArrayLenMax} ELSE {})
                \cup (IF shape = "array" THEN {ArrayLenMax + 1} ELSE {})

\* the first call of an engine is fill, on a destination of any type
FillDest ==
    \E ty \in ElemTypes, shape \in Shapes :
        \E n \in DestLens(ty, shape) :
            LET d == Dest(ty, n, shape)
            IN  /\ CanCall /\ nops = 0
                /\ m1' = IF implemented(d) THEN fill(Begin(m1), d, fault) ELSE Reject(Begin(m1))
                /\ m2' = IF implemented(d) THEN fill(Begin(m2), d, fault) ELSE Reject(Begin(m2))
                /\ call' = Call("fill", ty, n, 0, shape)
                /\ nops' = nops + 1
                /\ UNCHANGED <<fault, facades>>

\* the first call of an engine is try_fill, on a destination of any type
TryFillDest ==
    \E ty \in ElemTypes, shape \in Shapes :
        \E n \in DestLens(ty, shape) :
            LET d == Dest(ty, n, shape)
            IN  /\ CanCall /\ nops = 0
                /\ m1' = IF implemented(d) THEN try_fill(Begin(m1), d, fault)
                                           ELSE Reject(Begin(m1))
                /\ m2' = IF implemented(d) THEN try_fill(Begin(m2), d, fault)
                                           ELSE Reject(Begin(m2))
                /\ call' = Call("try_fill", ty, n, 0, shape)
                /\ nops' = nops + 1
                /\ UNCHANGED <<fault, facades>>

NextFill == FillDest \/ TryFillDest \/ SourceFails \/ SourceRecovers

SpecFill == Init /\ [][NextFill]_vars

\* ------------------------------------------------- the facades' behaviours
\* from_entropy() is called; the seed is what the entropy source delivers
FromEntropy ==
    \E seed \in Seeds :
        /\ ent.pc = "idle" /\ ent.made < MaxOps
        /\ ent' = from_entropy(BeginSeeding(ent), seed)
        /\ UNCHANGED <<engines, tls, iter>>

\* the caller draws a word from the engine from_entropy returned
EngineNext ==
    /\ ent.pc = "idle" /\ ent.engine # <<>> /\ ent.used < MaxDraws
    /\ ent' = [ent EXCEPT !.engine = <<next_u64(ent.engine[1]).rng>>, !.used = ent.used + 1]
    /\ UNCHANGED <<engines, tls, iter>>

\* an entropy source starts to fail, or works again
OsSourceChanges ==
    \E a \in SourceAnswers :
        /\ ent.pc = "idle" /\ a # ent.os
        /\ ent' = [ent EXCEPT !.os = a]
        /\ UNCHANGED <<engines, tls, iter>>

JitterSourceChanges ==
    \E a \in SourceAnswers :
        /\ ent.pc = "idle" /\ a # ent.jitter
        /\ ent' = [ent EXCEPT !.jitter = a]
        /\ UNCHANGED <<engines, tls, iter>>

NextEntropy == FromEntropy \/ EngineNext \/ OsSourceChanges \/ JitterSourceChanges

SpecEntropy == InitFacades /\ [][NextEntropy]_vars

\* the seeds the entropy source gives the threads' engines
ThreadSeeds == {0, WordMod - 1}

\* a thread takes the next step of a call of random()
Random ==
    \E t \in ThreadIds, seed \in ThreadSeeds, ty \in {"u32", "u64"} :
        /\ tls.done[t] < MaxOps
        /\ tls' = random(tls, t, seed, ty)
        /\ UNCHANGED <<engines, ent, iter>>

NextThreads == Random

SpecThreads == InitFacades /\ [][NextThreads]_vars

\* ------------------------------------------------ sample sequences in use
\* the engines start on little-endian hosts, from any seed and increment
InitIter ==
    \E v \in Seeds, a \in Incs :
        /\ m1 = Machine(v, a, "le")
        /\ m2 = Machine(v, a, "le")
        /\ call = Call("none", "none", 0, 0, "none")
        /\ fault = "none"
        /\ nops = 0
        /\ ent = Facade
        /\ tls = Threads_none
        /\ iter = DistIter_none

\* the distributions sampled in sequences: one that takes a narrow word, one
\* that takes a wide word and one that takes none
IterDistrs == {Standard("u32"), Bernoulli(WordMod \div 2), Bernoulli(ALWAYS_TRUE)}

\* A program makes its sequences over its own engine or over handles of the
\* thread-local engine, one sequence at a time.
\* rng.sample_iter(&distr) on the caller's own engine
SampleIter ==
    \E distr \in IterDistrs :
        /\ m1.pc = "idle" /\ nops < MaxOps /\ ~iter.live /\ iter.on # "handle"
        /\ iter' = sample_iter(OwnedRef(m1), distr)
        /\ call' = Call("sample_iter", distr.ty, distr.p_int, 0, "none")
        /\ nops' = nops + 1
        /\ UNCHANGED <<m1, m2, fault, ent, tls>>

\* thread_rng().sample_iter(&distr) on a thread: the handle goes to the sequence
HandleSampleIter ==
    \E t \in ThreadIds, seed \in ThreadSeeds, distr \in IterDistrs :
        /\ tls.pc[t] = "idle" /\ nops < MaxOps /\ ~iter.live
        /\ iter.on = "none" \/ (iter.on = "handle" /\ iter.t = t)
        /\ LET s == [thread_rng(tls, t, seed) EXCEPT !.handle[t] = <<>>]
           IN  /\ tls' = s
               /\ iter' = sample_iter(HandleRef(s, t), distr)
        /\ call' = Call("sample_iter", distr.ty, distr.p_int, t, "none")
        /\ nops' = nops + 1
        /\ UNCHANGED <<m1, m2, fault, ent>>

\* the holder advances the sequence over its own engine
IterNext ==
    /\ iter.live /\ iter.on = "owned" /\ m1.pc = "idle" /\ Len(iter.out) < MaxNext
    /\ LET r == DistIter_next(iter, m1, fault)
       IN  m1' = r.m /\ iter' = r.it
    /\ UNCHANGED <<m2, call, fault, nops, ent, tls>>

\* the holder advances the sequence over its handle
HandleIterNext ==
    /\ iter.live /\ iter.on = "handle" /\ tls.pc[iter.t] = "idle"
    /\ Len(iter.out) < MaxNext
    /\ LET r == DistIter_next(iter, tls.pool[iter.id].m, "none")
       IN  tls' = [tls EXCEPT !.pool[iter.id].m = r.m] /\ iter' = r.it
    /\ UNCHANGED <<engines, ent>>

\* the holder stops advancing the sequence and lets it go
IterDrop ==
    /\ iter.live
    /\ iter' = DistIter_drop(iter)
    /\ UNCHANGED <<engines, ent, tls>>

\* rng.gen() on the caller's own engine: refused when the program is built if
\* a sequence that borrows the engine is used afterwards
GenBesideIter ==
    \E ty \in {"u32", "u64"} :
        /\ m1.pc = "idle" /\ nops < MaxOps /\ iter.on = "owned"
        /\ m1' = IF borrowed(iter, "owned") THEN Reject(Begin(m1))
                                             ELSE gen(Begin(m1), ty, fault)
        /\ call' = Call("gen", ty, 0, 0, "none")
        /\ nops' = nops + 1
        /\ UNCHANGED <<m2, fault, facades>>

\* the thread that made a sequence over its handle takes the next step of a
\* call of random(): no borrow stands in its way
RandomBesideIter ==
    \E seed \in ThreadSeeds, ty \in {"u32", "u64"} :
        /\ iter.on = "handle" /\ tls.done[iter.t] < MaxOps
        /\ tls' = random(tls, iter.t, seed, ty)
        /\ UNCHANGED <<engines, ent, iter>>

\* the bit-source implementation starts to fail while a sequence is over it
IterSourceFails ==
    /\ iter.live /\ iter.on = "owned"
    /\ SourceFails

NextIter ==
    \/ SampleIter \/ HandleSampleIter \/ IterNext \/ HandleIterNext \/ IterDrop
    \/ GenBesideIter \/ RandomBesideIter \/ IterSourceFails

SpecIter == InitIter /\ [][NextIter]_vars

\* ----------------------------------------------------------- properties
\* C1: every successful gen_range(low, high) with low < high returns v with
\* low <= v < high; with high = low + 1 the result is low.
C1_RangeSampleInBounds ==
    (call.op = "gen_range" /\ call.a < call.b /\ m1.status = "ok") =>
        /\ Len(m1.val) = 1
        /\ call.a <= m1.val[1] /\ m1.val[1] < call.b
        /\ (call.b = call.a + 1 => m1.val[1] = call.a)

C1_Witness ==
    /\ call.op = "gen_range" /\ m1.status = "ok"
    /\ call.b > call.a + 1 /\ m1.val[1] > call.a

\* C2: gen_range(low, high) with low >= high panics and returns no value; the
\* bounds are neither clamped nor put in order.
C2_InvalidRangePanics ==
    (call.op = "gen_range" /\ call.a >= call.b) =>
        m1.status = "panic" /\ m1.val = <<>> /\ m1.pc = "panicked"

C2_Witness ==
    call.op = "gen_range" /\ call.a = 5 /\ call.b = -2 /\ m1.status = "panic"

\* C3: when gen_range fails on an invalid range the bit-source is where it was
\* when the call began: nothing was drawn or requested from it.
C3_InvalidRangeConsumesNothing ==
    (call.op = "gen_range" /\ call.a >= call.b /\ m1.status = "panic") =>
        /\ m1.rng = m1.pre /\ m1.draws = 0
        /\ m1.reqs = <<>> /\ m1.srcerr = "none"

C3_Witness ==
    /\ call.op = "gen_range" /\ call.a = call.b /\ m1.status = "panic"
    /\ m1.rng.a > 0 /\ nops = MaxOps

\* the range [low, high) is sampled exactly uniformly: the zone is the largest
\* multiple of the span that fits in a wide word, and every value of the range
\* comes from the same number of accepted raw words, every other value from none
Uniform(low, high) ==
    LET span == span_of(low, high)
        zone == zone_of(span)
    IN  /\ zone % span = 0 /\ zone <= WordMod /\ zone + span > WordMod
        /\ \A x \in IntMin..IntMax :
              Cardinality({v \in 0..(WordMod - 1) :
                              in_zone(v, span) /\ reduce(low, v, span) = x})
                  = IF low <= x /\ x < high THEN zone \div span ELSE 0

\* every valid pair of RangeArgs with whether it is sampled exactly uniformly
UniformRanges == {<<p, Uniform(p[1], p[2])>> : p \in {q \in RangeArgs \X RangeArgs : q[1] < q[2]}}

\* C4: gen_range is exactly uniform: raw words outside the acceptance zone are
\* discarded and redrawn, an accepted one is reduced modulo the span and added
\* to low, and every value of [low, high) has the same number of accepted words.
C4_ExactlyUniform ==
    (call.op = "gen_range" /\ call.a < call.b) =>
        LET span == span_of(call.a, call.b)
        IN  /\ <<<<call.a, call.b>>, TRUE>> \in UniformRanges
            /\ m1.status = "ok" =>
                  in_zone(m1.raw, span) /\ m1.val = <<reduce(call.a, m1.raw, span)>>
            /\ (m1.pc = "draw" /\ m1.draws > 0) => ~in_zone(m1.raw, span)

C4_Witness ==
    /\ call.op = "gen_range" /\ m1.status = "ok" /\ m1.draws > 1
    /\ WordMod % span_of(call.a, call.b) # 0

FillOps == {"fill", "try_fill"}

\* C6: fill and try_fill on N elements of K bytes make one request, of exactly
\* N*K bytes, and leave the bit-source where a raw fill of N*K bytes leaves it.
C6_FillRequestsExactBytes ==
    (call.op \in FillOps) =>
        LET nk == call.a * size_of(call.ty)
            raw_fill == fill_bytes_via_next(m1.pre, nk)
        IN  /\ m1.reqs = <<nk>>
            /\ m1.status = "ok" =>
                  /\ Len(m1.got) = nk
                  /\ m1.rng = raw_fill.rng
                  /\ m1.draws = raw_fill.words

C6_Witness ==
    /\ call.op = "fill" /\ call.ty = "u32" /\ call.a = MaxLen
    /\ m1.status = "ok" /\ m1.rng # m1.pre

\* C7: after a fill, element i is the little-endian value of bytes
\* [i*K, (i+1)*K) of what the bit-source produced, on hosts of either byte
\* order; two u32 from a source that always gives the u64 x are
\* [x as u32, (x >> 32) as u32].
C7_FillLittleEndian ==
    (call.op \in FillOps /\ m1.status = "ok") =>
        LET k == size_of(call.ty)
        IN  /\ m1.dest.ty = call.ty /\ m1.dest.n = call.a /\ m1.dest.shape = call.shape
            /\ \A i \in 0..(call.a - 1) :
                  Elem(m1.host, m1.dest, i) = le_value(SubSeq(m1.got, i * k + 1, (i + 1) * k))
            /\ (call.ty = "u32" /\ call.a = 2 /\ m1.pre.a = 0) =>
                  Elems(m1.host, m1.dest)
                      = <<m1.pre.v % HalfMod, (m1.pre.v \div HalfMod) % HalfMod>>

C7_Witness ==
    /\ call.op = "fill" /\ call.ty = "u32" /\ call.a = 2 /\ m1.status = "ok"
    /\ m1.host = "be" /\ m1.pre.a = 0
    /\ Elem(m1.host, m1.dest, 0) # swap_bytes(Elem(m1.host, m1.dest, 0), HalfBytes)

\* C8: fill and try_fill on an empty destination take nothing from the
\* bit-source and form the address of no element of it.
C8_EmptyDestination ==
    (call.op \in FillOps /\ call.a = 0) =>
        /\ m1.ptr # "elem0"
        /\ m1.reqs = <<0>> /\ m1.got = <<>>
        /\ m1.rng = m1.pre /\ m1.draws = 0
        /\ m1.srcerr = "none" => m1.status = "ok"

C8_Witness ==
    /\ call.op = "fill" /\ call.ty = "u32" /\ call.a = 0 /\ call.shape = "array"
    /\ m1.status = "ok" /\ m1.ptr = "0x1" /\ m1.rng.a > 0 /\ nops = MaxOps

\* C9: try_fill returns the bit-source's failure as it is when the byte fill
\* fails (no panic, no success, nothing converted), and returns success only
\* after the byte fill succeeded and every element was converted.
C9_TryFillForwardsFailure ==
    (call.op = "try_fill") =>
        LET d == Dest(call.ty, call.a, call.shape)
            k == size_of(call.ty)
        IN  /\ m1.srcerr # "none" =>
                  /\ m1.status = "err" /\ m1.err = m1.srcerr /\ m1.pc = "idle"
                  /\ m1.val = <<>> /\ m1.conv = 0 /\ m1.dest = d
            /\ m1.status = "ok" =>
                  /\ m1.srcerr = "none" /\ m1.err = "none"
                  /\ Len(m1.got) = call.a * k /\ m1.conv = to_le_count(d)
                  /\ \A i \in 0..(call.a - 1) :
                        Elem(m1.host, m1.dest, i)
                            = le_value(SubSeq(m1.got, i * k + 1, (i + 1) * k))
            /\ m1.status \in {"ok", "err"}

C9_Witness ==
    /\ call.op = "try_fill" /\ call.ty = "u64" /\ call.a > 0
    /\ m1.status = "err" /\ m1.err = "Transient"

Infallible == {"fill", "gen", "gen_range", "sample", "gen_bool", "gen_ratio"}

C11_GenBoolBoundaries ==
    /\ \A v \in 0..(WordMod - 1) :
          /\ ~Bernoulli_new(0).panic /\ ~(v < Bernoulli_new(0).distr.p_int)
          /\ ~Bernoulli_new(ProbDen).panic
          /\ Bernoulli_new(ProbDen).distr.p_int = ALWAYS_TRUE
    /\ (call.op = "gen_bool" /\ call.a = 0) =>
          /\ m1.status = "ok" => m1.val = <<FALSE>>
          /\ m1.srcerr = "none" => m1.status = "ok"
    /\ (call.op = "gen_bool" /\ call.a = ProbDen) =>
          m1.status = "ok" /\ m1.val = <<TRUE>>

C11_Witness ==
    /\ call.op = "gen_bool" /\ call.a = 0 /\ m1.status = "ok"
    /\ m1.raw = 0 /\ m1.draws = 1 /\ nops = MaxOps

\* C12: gen_bool(p) with p < 0 or p > 1 panics and returns no value; p is
\* never clamped into [0, 1].
C12_InvalidProbabilityPanics ==
    (call.op = "gen_bool" /\ (call.a < 0 \/ call.a > call.b)) =>
        /\ m1.status = "panic" /\ m1.pc = "panicked" /\ m1.val = <<>>
        /\ m1.rng = m1.pre /\ m1.draws = 0

C12_Witness ==
    call.op = "gen_bool" /\ call.a > call.b /\ m1.status = "panic" /\ fault = "none"

\* C13: gen_ratio(n, d) with d > 0 returns true whenever n = d and false
\* whenever n = 0, whatever word the bit-source gives.
C13_GenRatioBoundaries ==
    (call.op = "gen_ratio" /\ call.b > 0) =>
        /\ call.a = call.b => (m1.status = "ok" /\ m1.val = <<TRUE>>)
        /\ call.a = 0 =>
              /\ m1.status = "ok" => m1.val = <<FALSE>>
              /\ m1.srcerr = "none" => m1.status = "ok"

C13_Witness ==
    /\ call.op = "gen_ratio" /\ call.a = 0 /\ call.b = MaxRatio
    /\ m1.status = "ok" /\ m1.raw = 0 /\ m1.draws = 1

\* C14: gen_ratio(n, d) panics and returns no value whenever d = 0 (n = 0,
\* d = 0 included) or n > d.
C14_InvalidRatioPanics ==
    (call.op = "gen_ratio" /\ (call.b = 0 \/ call.a > call.b)) =>
        /\ m1.status = "panic" /\ m1.pc = "panicked" /\ m1.val = <<>>

C14_Witness ==
    call.op = "gen_ratio" /\ call.a = 0 /\ call.b = 0 /\ m1.status = "panic"

\* C15: from_entropy makes exactly one call of from_rng on a fresh entropy
\* source; when that call succeeds it returns the engine seeded by it, and when
\* it reports a failure the facade panics: no second attempt, no engine.
C15_FromEntropyOneAttempt ==
    (ent.status # "none") =>
        /\ ent.calls = 1
        /\ ent.asked \in {<<"os">>, <<"os", "jitter">>}
        /\ ent.reported = "none" =>
              /\ ent.status = "ok" /\ ent.pc = "idle" /\ Len(ent.engine) = 1
              /\ \E seed \in Seeds :
                    ent.engine[1] = [from_seed(seed) EXCEPT !.v = (seed + ent.used) % WordMod]
        /\ ent.reported # "none" =>
              /\ ent.status = "panic" /\ ent.pc = "panicked" /\ ent.engine = <<>>
              /\ ent.reported = ent.jitter /\ ent.os # "none"

C15_Witness ==
    /\ ent.status = "panic" /\ ent.calls = 1 /\ ent.made = MaxOps
    /\ ent.os = "Unavailable" /\ ent.jitter = "Transient" /\ ent.reported = "Transient"

\* the engines made on thread t
EnginesOf(t) == {i \in 1..Len(tls.pool) : tls.pool[i].owner = t}

\* C16: whatever the interleaving of the threads' calls of random(), a thread
\* has at most one engine, made on its first call and used by every later call
\* of that thread, and no engine is used by a thread other than its owner.
C16_OneEnginePerThread ==
    /\ \A t \in ThreadIds :
          /\ Cardinality(EnginesOf(t)) <= 1
          /\ tls.key[t] = <<>> <=> (tls.done[t] = 0 /\ tls.pc[t] = "idle")
          /\ tls.key[t] # <<>> => EnginesOf(t) = {tls.key[t][1]}
          /\ tls.pc[t] = "gen" <=> tls.handle[t] # <<>>
          /\ tls.handle[t] # <<>> => tls.handle[t] = tls.key[t]
    /\ \A i \in 1..Len(tls.pool) :
          LET e == tls.pool[i]
          IN  /\ e.users \subseteq {e.owner}
              /\ e.served = tls.done[e.owner]
              /\ e.m.rng = [StepRng_new(e.seed, 1) EXCEPT !.v = (e.seed + e.served) % WordMod]

C16_Witness ==
    /\ tls.done[1] = 1 /\ tls.pc[1] = "gen" /\ tls.pc[2] = "gen" /\ tls.done[2] = 1
    /\ tls.key[1] # tls.key[2] /\ tls.pool[1].owner = 2
    /\ tls.pool[1].users = {2} /\ tls.pool[2].users = {1}

\* the engine as it was when its last call began
Before(m) == Begin([m EXCEPT !.rng = m.pre, !.pc = "idle"])

\* what the last bulk fill does on the slice of the same elements
OnSlice ==
    LET d == Dest(call.ty, call.a, "slice")
    IN  IF call.op = "fill" THEN fill(Before(m1), d, m1.srcerr)
        ELSE try_fill(Before(m1), d, m1.srcerr)

stream_byte(r, i) ==
    (((r.v + (i \div WordBytes) * r.a) % WordMod) \div (ByteMod ^ (i % WordBytes))) % ByteMod

\* C20: a byte fill writes every byte of the destination, whatever its length
\* (each remainder of the wide word, after no whole word and after some):
\* byte i is byte i of the source's output, so that no byte keeps its zero
\* when the source's bytes are all non-zero.
C20_EveryByteOverwritten ==
    (call.op \in FillOps /\ call.ty = "u8" /\ m1.status = "ok") =>
        /\ Len(m1.dest.mem) = call.a
        /\ \A i \in 1..call.a : m1.dest.mem[i] = stream_byte(m1.pre, i - 1)
        /\ (\A i \in 1..call.a : stream_byte(m1.pre, i - 1) # 0) =>
              \A i \in 1..call.a : m1.dest.mem[i] # 0

C20_Witness ==
    /\ call.op = "fill" /\ call.ty = "u8" /\ call.shape = "slice" /\ m1.status = "ok"
    /\ call.a = (MaxLen + 1) * WordBytes - 1 /\ m1.pre.a = 0
    /\ \A i \in 1..call.a : m1.dest.mem[i] # 0

\* C18: gen_range(low, high) with low < high returns at the first word drawn
\* that lies in the acceptance zone; for every span the zone holds more than
\* half of the words, so that fewer than two draws are expected; and on a
\* source that does not keep to words outside the zone the call terminates.
C18_ZoneMoreThanHalf ==
    \A span \in 1..(WordMod - 1) :
        /\ 2 * zone_of(span) > WordMod
        /\ Cardinality({v \in 0..(WordMod - 1) : in_zone(v, span)}) = zone_of(span)

C18_FirstAccepted ==
    (call.op = "gen_range" /\ call.a < call.b) =>
        LET span == span_of(call.a, call.b)
        IN  /\ m1.pc \in {"draw", "idle"}
            /\ (m1.pc = "draw" /\ m1.draws > 0) => ~in_zone(m1.raw, span)
            /\ m1.pc = "idle" =>
                  /\ m1.status = "ok" /\ m1.draws > 0 /\ in_zone(m1.raw, span)
                  /\ m1.val = <<reduce(call.a, m1.raw, span)>>

Canonical ==
    LET b == Before(m1)
        distr == CASE call.op = "gen" -> [panic |-> FALSE, distr |-> Standard(call.ty)]
                   [] call.op = "gen_bool" -> Bernoulli_new(call.a)
                   [] OTHER -> Bernoulli_from_ratio(call.a, call.b)
    IN  IF distr.panic THEN Panic(b) ELSE sample(b, distr.distr, m1.srcerr)

\* C19: gen::<T>() returns what sample(Standard) returns from the same engine
\* state and leaves the engine in the same state, gen_bool(p) does so for
\* sample(Bernoulli::new(p)) and gen_ratio(n, d) for
\* sample(Bernoulli::from_ratio(n, d)); no wrapper draws a word of its own.
C19_ReducesToSample ==
    (call.op \in {"gen", "gen_bool", "gen_ratio"}) =>
        /\ m1.status = Canonical.status /\ m1.val = Canonical.val
        /\ m1.rng = Canonical.rng /\ m1.draws = Canonical.draws
        /\ m1 = Canonical

C19_Witness ==
    /\ call.op = "gen" /\ call.ty = "u32" /\ m1.status = "ok" /\ m1.draws = 1
    /\ m1.rng # m1.pre /\ nops = MaxOps

\* k successive calls of sample(distr) on an engine that starts in state r:
\* the state they leave and the values they return
RECURSIVE successive(_, _, _)
successive(r, distr, k) ==
    IF k = 0 THEN [rng |-> r, out |-> <<>>]
    ELSE LET p == successive(r, distr, k - 1)
             s == sample(Begin([Machine(0, 0, "le") EXCEPT !.rng = p.rng]), distr, "none")
         IN  [rng |-> s.rng, out |-> Append(p.out, s.val[1])]

\* the engine the sequence draws from
IterEngine == IF iter.on = "owned" THEN m1 ELSE tls.pool[iter.id].m

\* calls of random() the sequence's engine served since the sequence was made
IterOthers == IF iter.on = "owned" THEN 0 ELSE tls.pool[iter.id].served - iter.served0

\* no advance reported the end, and the last advance took from the engine what
\* one call of sample(distr) takes and yielded what that call returns
C21_EachAdvance ==
    /\ ~iter.ended
    /\ iter.before # <<>> =>
          LET s == successive(iter.before[1], iter.distr, 1)
          IN  /\ iter.after = <<s.rng>>
              /\ iter.out # <<>> /\ iter.out[Len(iter.out)] = s.out[1]

\* the elements are what successive calls of sample return from the state the
\* engine was in when the sequence was made, and while the sequence exists the
\* engine has given out nothing else
C21_AsSuccessiveSamples ==
    LET s == successive(iter.start, iter.distr, Len(iter.out))
    IN  /\ iter.out = s.out
        /\ iter.live => IterEngine.rng = s.rng

\* C21 as claimed: a sequence never ends, each advance consumes what one call
\* of sample consumes, the k-th element is the result of the k-th of k
\* successive calls of sample from the starting state, and while the sequence
\* exists no other operation consumes output of its bit-source, whatever the
\* bit-source is.
C21_ExclusiveOfBitSource ==
    (iter.on # "none") => (C21_EachAdvance /\ C21_AsSuccessiveSamples)

\* C21: a sequence never ends and each advance consumes what one call of
\* sample consumes and yields what it returns; the sequence borrows the value
\* it is made over, so that over the caller's own engine no other call runs
\* while it exists and the k-th element is the result of the k-th of k
\* successive calls of sample from the starting state; over a handle of the
\* thread-local engine this holds as long as no call of random() on that
\* thread has drawn from the engine since the sequence was made.
C21_ExclusiveOfBorrowedValue ==
    (iter.on # "none") =>
        /\ C21_EachAdvance
        /\ (iter.on = "owned" \/ IterOthers = 0) => C21_AsSuccessiveSamples

C21_Witness ==
    /\ iter.on = "owned" /\ iter.live /\ Len(iter.out) = MaxNext
    /\ iter.out[1] # iter.out[2] /\ iter.distr = Standard("u32")
    /\ call.op = "gen" /\ m1.status = "rejected" /\ nops = MaxOps

====
